---- MODULE Spec2Model ----
(* Model of EventSystem (src/src/modules/events/index.ts): the listener    *)
(* registry, synchronous emit over the live handler Set, emitAsync over a  *)
(* copied array, once-wrappers, and the diagnostic sink; and of Logger     *)
(* (src/src/modules/logs/index.ts): rendering to the console, the events   *)
(* emitted on the logger's own bus, timers and child loggers.              *)
EXTENDS Integers, Sequences, FiniteSets, TLC

\* ---------------------------------------------------------------- bounds
MaxDepth == 2       \* nested emissions on the call stack
MaxInvoke == 3      \* handler invocations within one emission
MaxActs == 1        \* API calls one handler invocation makes
MaxWrappers == 1    \* once() registrations ever made
MaxFire == 2        \* invocations of one once-handler that are followed
MaxAsync == 1       \* emitAsync promises awaiting their handlers
MaxOnce == 2        \* once() registrations where several are followed
MaxLoggers == 3     \* Logger objects: the root and its descendants
MaxMsgs == 2        \* messages passed to one logging call
MaxClock == 2       \* instants performance.now() returns
MaxEmits == 3       \* emissions on the logger's bus within one call

\* ------------------------------------------------------------- universe
Events == {"", "x"}          \* event keys: one falsy, one truthy
Fns == {"A", "B"}            \* handler functions the callers own
OnceFns == {"A"}             \* those passed to once: the bus only calls them
Infinity == 0 - 1            \* the default maxListeners
MaxListenersValues == {1, Infinity}

VARIABLES listeners, options, wrappers, fired, stack, pending, out, ret,
          loggers, clock, io, call

bvars == <<listeners, options, wrappers, fired, stack, pending, out, ret>>
lvars == <<loggers, clock, io, call>>
vars == <<listeners, options, wrappers, fired, stack, pending, out, ret,
          loggers, clock, io, call>>

\* ------------------------------------------------------ handler references
\* A handler reference: a caller's function (wid = 0) or the k-th wrapper
\* closure created by once (wid = k), which wraps fn.
Plain(f) == [fn |-> f, wid |-> 0]
Wrapper(k) == [fn |-> wrappers[k].fn, wid |-> k]
None == [fn |-> "none", wid |-> 0]
Refs == {Plain(f) : f \in Fns} \cup {[fn |-> f, wid |-> k] : f \in OnceFns, k \in 1..MaxWrappers}

\* ------------------------------------------------- the JavaScript Set type
Has(s, x) == \E i \in 1..Len(s) : s[i] = x
IndexOf(s, x) == IF Has(s, x) THEN CHOOSE i \in 1..Len(s) : s[i] = x ELSE 0
RemoveAt(s, p) == [i \in 1..(Len(s) - 1) |-> IF i < p THEN s[i] ELSE s[i + 1]]
Without(s, x) == IF Has(s, x) THEN RemoveAt(s, IndexOf(s, x)) ELSE s

\* Set.prototype.add: appends unless the value is already a member.
SetAddDup(s, x) == Append(s, x)
SetAdd(s, x) == IF Has(s, x) THEN s ELSE Append(s, x)

\* Set.prototype.delete
SetDeleteHead(s, x) == IF Has(s, x) THEN Tail(s) ELSE s
SetDelete(s, x) == Without(s, x)

\* new Set([handler, ...set]): the first occurrence of a value is kept.
PrependAppend(x, s) == Append(Without(s, x), x)
PrependSet(x, s) == <<x>> \o Without(s, x)

\* ------------------------------------------------------------- registry
\* listeners: Map<event, Set<handler>>; has = the key is in the Map.
Absent == [has |-> FALSE, set |-> <<>>]
Entry(s) == [has |-> TRUE, set |-> s]

listenerCount(e) == IF listeners[e].has THEN Len(listeners[e].set) ELSE 0
hasListeners(e) == listenerCount(e) > 0
eventNames == {e \in Events : listeners[e].has}

\* set.size >= this.options.maxListeners
AtCapOver(size, max) == max # Infinity /\ size > max
AtCap(size, max) == max # Infinity /\ size >= max

Warning(text, e) == [kind |-> "warn", level |-> 0, text |-> text, ev |-> e]
ErrorReport(e) == [kind |-> "error", level |-> 0, text |-> "Handler crashed for", ev |-> e]

\* ---------------------------------------------------------- call stack
\* One frame per emit / emitAsync in progress. An emit frame iterates the
\* Set object it fetched: attached = that object is still the one stored in
\* the Map (so registry changes are seen by the iteration); once the Map is
\* given another object or loses the key, the frame keeps the object's
\* contents in items, and nothing changes them any more.
Frame(e, m, att, its) ==
    [ev |-> e, mode |-> m, attached |-> att, items |-> its, idx |-> 0,
     cur |-> None, acts |-> 0, snapshot |-> IF att THEN listeners[e].set ELSE its,
     invoked |-> <<>>, outcomes |-> <<>>, reports |-> 0]

Top == stack[Len(stack)]
Iter(f) == IF f.attached THEN listeners[f.ev].set ELSE f.items

\* The caller of an API method: top-level code, or the running handler.
\* An awaited emitAsync touches no state of the bus, so a call made while it
\* is awaited acts as the same call made after it: top-level callers wait.
CanCall == IF Len(stack) = 0 THEN Len(pending) = 0
           ELSE Top.cur # None /\ Top.acts < MaxActs
Bump(st) == IF Len(st) = 0 THEN st ELSE [st EXCEPT ![Len(st)].acts = @ + 1]

\* Set iteration sees a deletion: an entry removed at or before the cursor
\* shifts the cursor back; an emptied Set is dropped from the Map.
AfterDelete(st, e, p, emptied) ==
    [i \in 1..Len(st) |->
        IF st[i].ev = e /\ st[i].attached /\ p > 0
        THEN [st[i] EXCEPT !.idx = IF emptied THEN 0 ELSE IF @ >= p THEN @ - 1 ELSE @,
                           !.attached = ~emptied,
                           !.items = <<>>]
        ELSE st[i]]

\* The Map entry of e is deleted or replaced by another Set object.
Detach(st, es) ==
    [i \in 1..Len(st) |->
        IF st[i].ev \in es /\ st[i].attached
        THEN [st[i] EXCEPT !.attached = FALSE, !.items = listeners[st[i].ev].set]
        ELSE st[i]]

\* What an emit / emitAsync call hands back to its caller in this step, with
\* the record of the emission: the handlers registered when it was called,
\* those it invoked, in order, and how each invocation ended.
NoRet == [mode |-> "none", ev |-> "", result |-> "none", snapshot |-> <<>>,
          invoked |-> <<>>, outcomes |-> <<>>, reports |-> 0]
Ret(f, res) == [mode |-> f.mode, ev |-> f.ev, result |-> res, snapshot |-> f.snapshot,
                invoked |-> f.invoked, outcomes |-> f.outcomes, reports |-> f.reports]

\* The record of the last call made on a logger.
NoData == [kind |-> "none", v |-> ""]
NoCall == [op |-> "none", logger |-> 0, label |-> "", level |-> 0, messages |-> <<>>,
           data |-> NoData, had |-> FALSE, start |-> 0, now |-> 0, subs |-> 0,
           threw |-> FALSE]

\* ----------------------------------------------------------------- Init
\* An EventSystem built by its user: no Logger object is involved, the sink
\* given to the constructor receives out.
Init ==
    /\ loggers = <<>>
    /\ clock = 0
    /\ io = <<>>
    /\ call = NoCall
    /\ listeners = [e \in Events |-> Absent]
    /\ options \in [warnOnNoListeners : BOOLEAN, catchErrors : BOOLEAN,
                    maxListeners : MaxListenersValues]
    /\ wrappers = <<>>
    /\ fired = <<>>
    /\ stack = <<>>
    /\ pending = <<>>
    /\ out = <<>>
    /\ ret = NoRet

\* ------------------------------------------------------------ operations
\* on(event, handler), lines 106-120
OnReg(e, ref) ==
    LET set == IF listeners[e].has THEN listeners[e].set ELSE <<>>
    IN  /\ listeners' = [listeners EXCEPT ![e] = Entry(SetAdd(set, ref))]
        /\ out' = IF AtCap(Len(set), options.maxListeners)
                  THEN <<Warning("Max listeners exceeded for", e)>> ELSE <<>>
        /\ stack' = Bump(stack)

On(e, f) ==
    /\ CanCall
    /\ OnReg(e, Plain(f))
    /\ ret' = NoRet
    /\ UNCHANGED <<options, wrappers, fired, pending>>
    /\ UNCHANGED lvars

\* prepend(event, handler), lines 129-141
Prepend(e, f) ==
    /\ CanCall
    /\ LET set == IF listeners[e].has THEN listeners[e].set ELSE <<>>
       IN  /\ listeners' = [listeners EXCEPT ![e] = Entry(PrependSet(Plain(f), set))]
           /\ stack' = Bump(Detach(stack, {e}))
    /\ out' = <<>>
    /\ ret' = NoRet
    /\ UNCHANGED <<options, wrappers, fired, pending>>
    /\ UNCHANGED lvars

\* once(event, handler), lines 150-157: a new wrapper closure, passed to on
OnceUnwrapped(e, f) ==
    /\ CanCall
    /\ wrappers' = Append(wrappers, [ev |-> e, fn |-> f])
    /\ fired' = Append(fired, 0)
    /\ OnReg(e, Plain(f))
    /\ ret' = NoRet
    /\ UNCHANGED <<options, pending>>
    /\ UNCHANGED lvars
OnceReg(e, f) ==
    /\ CanCall
    /\ wrappers' = Append(wrappers, [ev |-> e, fn |-> f])
    /\ fired' = Append(fired, 0)
    /\ OnReg(e, [fn |-> f, wid |-> Len(wrappers) + 1])
    /\ ret' = NoRet
    /\ UNCHANGED <<options, pending>>
    /\ UNCHANGED lvars

Once(e, f) ==
    /\ Len(wrappers) < MaxWrappers
    /\ OnceReg(e, f)

\* off(event, handler), lines 165-174
OffRegKeep(e, ref) ==
    IF ~listeners[e].has THEN listeners
    ELSE [listeners EXCEPT ![e] = Entry(SetDelete(listeners[e].set, ref))]
OffReg(e, ref) ==
    IF ~listeners[e].has THEN listeners
    ELSE LET s == SetDelete(listeners[e].set, ref)
         IN  [listeners EXCEPT ![e] = IF Len(s) = 0 THEN Absent ELSE Entry(s)]

OffStack(st, e, ref) ==
    IF ~listeners[e].has THEN st
    ELSE AfterDelete(st, e, IndexOf(listeners[e].set, ref),
                     ~OffReg(e, ref)[e].has)

Off(e, f) ==
    /\ CanCall
    /\ listeners' = OffReg(e, Plain(f))
    /\ stack' = Bump(OffStack(stack, e, Plain(f)))
    /\ out' = <<>>
    /\ ret' = NoRet
    /\ UNCHANGED <<options, wrappers, fired, pending>>
    /\ UNCHANGED lvars

\* the closure () => this.off(event, handler) returned by on / prepend
Unsubscribe(e, f) ==
    /\ CanCall
    /\ listeners' = OffReg(e, Plain(f))
    /\ stack' = Bump(OffStack(stack, e, Plain(f)))
    /\ out' = <<>>
    /\ ret' = NoRet
    /\ UNCHANGED <<options, wrappers, fired, pending>>
    /\ UNCHANGED lvars

\* the closure returned by once: () => this.off(event, wrapper)
UnsubscribeOnce(k) ==
    /\ CanCall
    /\ k \in 1..Len(wrappers)
    /\ listeners' = OffReg(wrappers[k].ev, Wrapper(k))
    /\ stack' = Bump(OffStack(stack, wrappers[k].ev, Wrapper(k)))
    /\ out' = <<>>
    /\ ret' = NoRet
    /\ UNCHANGED <<options, wrappers, fired, pending>>
    /\ UNCHANGED lvars

\* removeAllListeners(event?), lines 268-274: `if (event)` tests truthiness
Truthy(e) == e # ""

RemoveAllListeners(e) ==
    /\ CanCall
    /\ LET es == IF Truthy(e) THEN {e} ELSE Events
       IN  /\ listeners' = [k \in Events |-> IF k \in es THEN Absent ELSE listeners[k]]
           /\ stack' = Bump(Detach(stack, es))
    /\ out' = <<>>
    /\ ret' = NoRet
    /\ UNCHANGED <<options, wrappers, fired, pending>>
    /\ UNCHANGED lvars

RemoveAllListenersNoArg ==
    /\ CanCall
    /\ listeners' = [k \in Events |-> Absent]
    /\ stack' = Bump(Detach(stack, Events))
    /\ out' = <<>>
    /\ ret' = NoRet
    /\ UNCHANGED <<options, wrappers, fired, pending>>
    /\ UNCHANGED lvars

\* setMaxListeners(n), lines 259-261
SetMaxListeners(n) ==
    /\ CanCall
    /\ options' = [options EXCEPT !.maxListeners = n]
    /\ stack' = Bump(stack)
    /\ out' = <<>>
    /\ ret' = NoRet
    /\ UNCHANGED <<listeners, wrappers, fired, pending>>
    /\ UNCHANGED lvars

\* emit(event), lines 183-191 and the set-up of the loop of line 195
EmitWarnsAlways(e) ==
    /\ CanCall
    /\ IF ~listeners[e].has \/ listenerCount(e) = 0
       THEN /\ out' = <<Warning("Event emitted with no listeners:", e)>>
            /\ ret' = [NoRet EXCEPT !.mode = "emit", !.ev = e, !.result = "false"]
            /\ stack' = Bump(stack)
       ELSE /\ Len(stack) < MaxDepth
            /\ out' = <<>>
            /\ ret' = NoRet
            /\ stack' = Append(Bump(stack), Frame(e, "emit", TRUE, <<>>))
    /\ UNCHANGED <<listeners, options, wrappers, fired, pending>>
    /\ UNCHANGED lvars
Emit(e) ==
    /\ CanCall
    /\ IF ~listeners[e].has \/ listenerCount(e) = 0
       THEN /\ out' = IF options.warnOnNoListeners
                      THEN <<Warning("Event emitted with no listeners:", e)>> ELSE <<>>
            /\ ret' = [NoRet EXCEPT !.mode = "emit", !.ev = e, !.result = "false"]
            /\ stack' = Bump(stack)
       ELSE /\ Len(stack) < MaxDepth
            /\ out' = <<>>
            /\ ret' = NoRet
            /\ stack' = Append(Bump(stack), Frame(e, "emit", TRUE, <<>>))
    /\ UNCHANGED <<listeners, options, wrappers, fired, pending>>
    /\ UNCHANGED lvars

\* emitAsync(event), lines 218-223: [...set] copies the Set into an array
AsyncInFlight == Len(pending) + Cardinality({i \in 1..Len(stack) : stack[i].mode = "async"})

EmitAsync(e) ==
    /\ CanCall
    /\ IF ~listeners[e].has \/ listenerCount(e) = 0
       THEN /\ ret' = [NoRet EXCEPT !.mode = "async", !.ev = e, !.result = "false"]
            /\ stack' = Bump(stack)
       ELSE /\ Len(stack) < MaxDepth
            /\ AsyncInFlight < MaxAsync
            /\ ret' = NoRet
            /\ stack' = Append(Bump(stack), Frame(e, "async", FALSE, listeners[e].set))
    /\ out' = <<>>
    /\ UNCHANGED <<listeners, options, wrappers, fired, pending>>
    /\ UNCHANGED lvars

\* One step of the loop / of the map: the next handler is called. A once
\* wrapper (lines 151-154) first runs this.off(event, wrapper), then calls
\* the wrapped handler.
Invoke ==
    /\ Len(stack) > 0
    /\ Top.cur = None
    /\ Top.idx < Len(Iter(Top))
    /\ Len(Top.invoked) < MaxInvoke
    /\ LET n == Len(stack)
           ref == Iter(Top)[Top.idx + 1]
           st1 == [stack EXCEPT ![n] = [@ EXCEPT !.idx = @ + 1, !.cur = ref, !.acts = 0,
                                               !.invoked = Append(@, ref)]]
       IN  IF ref.wid = 0
           THEN /\ stack' = st1
                /\ UNCHANGED <<listeners, fired>>
           ELSE /\ fired[ref.wid] < MaxFire
                /\ listeners' = OffReg(wrappers[ref.wid].ev, ref)
                /\ stack' = OffStack(st1, wrappers[ref.wid].ev, ref)
                /\ fired' = [fired EXCEPT ![ref.wid] = @ + 1]
    /\ out' = <<>>
    /\ ret' = NoRet
    /\ UNCHANGED <<options, wrappers, pending>>
    /\ UNCHANGED lvars

Pop == SubSeq(stack, 1, Len(stack) - 1)
SetTop(f) == [stack EXCEPT ![Len(stack)] = f]

\* the running handler returns a value (emit ignores it; in emitAsync the
\* async arrow's promise is fulfilled)
HandlerReturn ==
    /\ Len(stack) > 0
    /\ Top.cur # None
    /\ stack' = SetTop([Top EXCEPT !.cur = None, !.outcomes = Append(@, "ok")])
    /\ out' = <<>>
    /\ ret' = NoRet
    /\ UNCHANGED <<listeners, options, wrappers, fired, pending>>
    /\ UNCHANGED lvars

\* the running handler returns a promise that is still pending
HandlerSuspend ==
    /\ Len(stack) > 0
    /\ Top.cur # None
    /\ Top.mode = "async"
    /\ stack' = SetTop([Top EXCEPT !.cur = None, !.outcomes = Append(@, "pending")])
    /\ out' = <<>>
    /\ ret' = NoRet
    /\ UNCHANGED <<listeners, options, wrappers, fired, pending>>
    /\ UNCHANGED lvars

\* if (catchErrors) try { handler(...args) } catch ..., lines 196-201: only
\* emit has it
CatchesNever(mode) == FALSE
CatchesAlways(mode) == mode = "emit"
CatchesAnyMode(mode) == options.catchErrors
Catches(mode) == mode = "emit" /\ options.catchErrors

\* the running handler throws: lines 196-204 for emit; in emitAsync the
\* async arrow of line 223 turns the throw into a rejected promise
HandlerThrow ==
    /\ Len(stack) > 0
    /\ Top.cur # None
    /\ IF Catches(Top.mode)
       THEN /\ stack' = SetTop([Top EXCEPT !.cur = None, !.outcomes = Append(@, "fail"),
                                    !.reports = @ + 1])
            /\ out' = <<ErrorReport(Top.ev)>>
            /\ ret' = NoRet
       ELSE IF Top.mode = "async"
       THEN /\ stack' = SetTop([Top EXCEPT !.cur = None, !.outcomes = Append(@, "fail")])
            /\ out' = <<>>
            /\ ret' = NoRet
       ELSE /\ stack' = Pop
            /\ out' = <<>>
            /\ ret' = Ret([Top EXCEPT !.outcomes = Append(@, "fail")], "threw")
    /\ UNCHANGED <<listeners, options, wrappers, fired, pending>>
    /\ UNCHANGED lvars

\* the loop of line 195 is over: return true (line 207)
EmitReturn ==
    /\ Len(stack) > 0
    /\ Top.mode = "emit"
    /\ Top.cur = None
    /\ Top.idx >= Len(Iter(Top))
    /\ stack' = Pop
    /\ out' = <<>>
    /\ ret' = Ret(Top, "true")
    /\ UNCHANGED <<listeners, options, wrappers, fired, pending>>
    /\ UNCHANGED lvars

\* the map of line 223 is over: await Promise.all(...) suspends emitAsync
AsyncAwait ==
    /\ Len(stack) > 0
    /\ Top.mode = "async"
    /\ Top.cur = None
    /\ Top.idx >= Len(Iter(Top))
    /\ stack' = Pop
    /\ pending' = Append(pending, Ret(Top, "pending"))
    /\ out' = <<>>
    /\ ret' = NoRet
    /\ UNCHANGED <<listeners, options, wrappers, fired>>
    /\ UNCHANGED lvars

\* a handler's pending promise is fulfilled / rejected by its owner
Settle(i, j, how) ==
    /\ Len(stack) = 0
    /\ i \in 1..Len(pending)
    /\ j \in 1..Len(pending[i].outcomes)
    /\ pending[i].outcomes[j] = "pending"
    /\ pending' = [pending EXCEPT ![i].outcomes[j] = how]
    /\ out' = <<>>
    /\ ret' = NoRet
    /\ UNCHANGED <<listeners, options, wrappers, fired, stack>>
    /\ UNCHANGED lvars

HandlerResolve(i, j) == Settle(i, j, "ok")
HandlerReject(i, j) == Settle(i, j, "fail")

\* Promise.all (line 222): rejected as soon as one input is rejected,
\* fulfilled when all inputs are; then emitAsync returns true (line 226).
AllRejected(o) == \E j \in 1..Len(o) : o[j] = "fail"
AllFulfilled(o) == \A j \in 1..Len(o) : o[j] = "ok"

AsyncSettle(i) ==
    /\ Len(stack) = 0
    /\ i \in 1..Len(pending)
    /\ AllRejected(pending[i].outcomes) \/ AllFulfilled(pending[i].outcomes)
    /\ ret' = Ret(pending[i], IF AllRejected(pending[i].outcomes) THEN "rejected" ELSE "true")
    /\ pending' = RemoveAt(pending, i)
    /\ out' = <<>>
    /\ UNCHANGED <<listeners, options, wrappers, fired, stack>>
    /\ UNCHANGED lvars

\* Callers that are not handlers: every API call is made between emissions.
TopLevel == Len(stack) = 0

Next ==
    \/ \E e \in Events, f \in Fns : TopLevel /\ On(e, f)
    \/ \E e \in Events, f \in Fns : TopLevel /\ Prepend(e, f)
    \/ \E e \in Events, f \in OnceFns : TopLevel /\ Once(e, f)
    \/ \E e \in Events, f \in Fns : TopLevel /\ Off(e, f)
    \/ \E e \in Events, f \in Fns : TopLevel /\ Unsubscribe(e, f)
    \/ \E k \in 1..MaxWrappers : TopLevel /\ UnsubscribeOnce(k)
    \/ \E e \in Events : TopLevel /\ RemoveAllListeners(e)
    \/ TopLevel /\ RemoveAllListenersNoArg
    \/ \E n \in MaxListenersValues : TopLevel /\ SetMaxListeners(n)
    \/ \E e \in Events : TopLevel /\ Emit(e)
    \/ \E e \in Events : TopLevel /\ EmitAsync(e)
    \/ Invoke
    \/ HandlerReturn
    \/ HandlerSuspend
    \/ HandlerThrow
    \/ EmitReturn
    \/ AsyncAwait
    \/ \E i \in 1..MaxAsync, j \in 1..MaxInvoke : HandlerResolve(i, j)
    \/ \E i \in 1..MaxAsync, j \in 1..MaxInvoke : HandlerReject(i, j)
    \/ \E i \in 1..MaxAsync : AsyncSettle(i)

Spec == Init /\ [][Next]_vars

\* Handlers that call back into the bus while an emission is in progress
\* (and neither throw nor suspend).
ReEvents == {"x"}

InitRe ==
    /\ Init
    /\ options.maxListeners = Infinity
    /\ ~options.warnOnNoListeners
    /\ options.catchErrors

NextRe ==
    \/ \E e \in ReEvents, f \in Fns : On(e, f)
    \/ \E e \in ReEvents, f \in Fns : Prepend(e, f)
    \/ \E e \in ReEvents, f \in OnceFns : Once(e, f)
    \/ \E e \in ReEvents, f \in Fns : Off(e, f)
    \/ \E e \in ReEvents, f \in Fns : Unsubscribe(e, f)
    \/ \E k \in 1..MaxWrappers : UnsubscribeOnce(k)
    \/ \E e \in ReEvents : RemoveAllListeners(e)
    \/ \E e \in ReEvents : Emit(e)
    \/ \E e \in ReEvents : EmitAsync(e)
    \/ Invoke
    \/ HandlerReturn
    \/ EmitReturn
    \/ AsyncAwait
    \/ \E i \in 1..MaxAsync : AsyncSettle(i)

SpecRe == InitRe /\ [][NextRe]_vars

\* Registration and synchronous emission on a bus built with the default
\* options (lines 89-95), its handlers returning normally.
InitOrder ==
    /\ Init
    /\ options = [warnOnNoListeners |-> TRUE, catchErrors |-> TRUE,
                  maxListeners |-> Infinity]

NextOrder ==
    \/ \E e \in Events, f \in Fns : TopLevel /\ On(e, f)
    \/ \E e \in Events, f \in Fns : TopLevel /\ Prepend(e, f)
    \/ \E e \in Events, f \in OnceFns : TopLevel /\ Once(e, f)
    \/ \E e \in Events, f \in Fns : TopLevel /\ Off(e, f)
    \/ \E e \in Events : TopLevel /\ Emit(e)
    \/ Invoke
    \/ HandlerReturn
    \/ EmitReturn

SpecOrder == InitOrder /\ [][NextOrder]_vars

\* The registry under every setting of warnOnNoListeners and maxListeners:
\* registrations, removals and emissions made between emissions, and
\* handlers that return or remove a handler (off, unsubscribe) on the way.
InitReg ==
    /\ Init
    /\ options.catchErrors

NextReg ==
    \/ \E e \in Events, f \in Fns : TopLevel /\ On(e, f)
    \/ \E e \in Events, f \in Fns : TopLevel /\ Prepend(e, f)
    \/ \E e \in Events, f \in OnceFns : TopLevel /\ Once(e, f)
    \/ \E e \in Events, f \in Fns : Off(e, f)
    \/ \E e \in Events, f \in Fns : Unsubscribe(e, f)
    \/ \E k \in 1..MaxWrappers : TopLevel /\ UnsubscribeOnce(k)
    \/ \E e \in Events : TopLevel /\ RemoveAllListeners(e)
    \/ TopLevel /\ RemoveAllListenersNoArg
    \/ \E n \in MaxListenersValues : TopLevel /\ SetMaxListeners(n)
    \/ \E e \in Events : TopLevel /\ Emit(e)
    \/ Invoke
    \/ HandlerReturn
    \/ EmitReturn

SpecReg == InitReg /\ [][NextReg]_vars

\* One-shot registrations next to plain ones on a bus built with the
\* default options: calls made between emissions, handlers that return.
OnceTwice(e, f) ==
    /\ Len(wrappers) < MaxOnce
    /\ OnceReg(e, f)

NextOnce ==
    \/ \E e \in Events, f \in Fns : TopLevel /\ On(e, f)
    \/ \E e \in Events, f \in OnceFns : TopLevel /\ OnceTwice(e, f)
    \/ \E e \in Events, f \in Fns : TopLevel /\ Off(e, f)
    \/ \E k \in 1..MaxOnce : TopLevel /\ UnsubscribeOnce(k)
    \/ \E e \in Events : TopLevel /\ RemoveAllListeners(e)
    \/ TopLevel /\ RemoveAllListenersNoArg
    \/ \E e \in Events : TopLevel /\ Emit(e)
    \/ Invoke
    \/ HandlerReturn
    \/ EmitReturn

SpecOnce == InitOrder /\ [][NextOnce]_vars

\* ================================================================ Logger
Names == {"db", "pool"}                      \* names given to child loggers
Labels == {"job"}                            \* timer labels
PrintLabels == {"NOTE"}                      \* labels a caller of print passes
PrintColors == {"white"}
Outputs == {"log", "info", "warn", "error"}  \* the console methods print selects
Levels == {0, 1, 2}
OptionValues == {"unset", "true", "false"}   \* a LoggerOptions field as passed

\* message values: a primitive (string, number) or an object (here an array
\* holding one string); the callers pass the numbers 1, 2, ... in this order
Str(v) == [type |-> "string", v |-> v]
Num(v) == [type |-> "number", v |-> v]
Arr(v) == [type |-> "object", v |-> v]
MsgLists == {[j \in 1..n |-> Num(j)] : n \in 0..MaxMsgs}

\* { clearOnInit: true, useTimestamps: true, ...options }, lines 61-65
WithDefaults(o) == [clearOnInit |-> o.clearOnInit # "false",
                    useTimestamps |-> o.useTimestamps # "false"]
AsGiven(b) == IF b THEN "true" ELSE "false"

\* the optional constructor argument parentContext
NoParent == [given |-> FALSE, ctx |-> <<>>]
Parent(c) == [given |-> TRUE, ctx |-> c]

\* parentContext ? [...parentContext, name] : [name], lines 67-69
ContextNameOnly(name, parent) == <<name>>
Context(name, parent) == IF parent.given THEN Append(parent.ctx, name) ELSE <<name>>

NoTimer == [has |-> FALSE, start |-> 0]
Timer(t) == [has |-> TRUE, start |-> t]

\* new Logger(name, options, parentContext), lines 42-45 and 60-74
Construct(name, o, parent) ==
    [context |-> Context(name, parent), options |-> WithDefaults(o),
     timers |-> [l \in Labels |-> NoTimer], groupLevel |-> 0]

\* if (!parentContext && this.options.clearOnInit) console.clear(), lines 71-73
ClearEntry == [kind |-> "clear"]
ConstructEffectsAnyLogger(o, parent) ==
    IF WithDefaults(o).clearOnInit THEN <<ClearEntry>> ELSE <<>>
ConstructEffects(o, parent) ==
    IF ~parent.given /\ WithDefaults(o).clearOnInit THEN <<ClearEntry>> ELSE <<>>

\* formatMessage, lines 96-100
FormatMessage(m) ==
    IF m.type = "object" THEN [by |-> "JSON.stringify", of |-> m.v]
    ELSE [by |-> "String", of |-> m.v]

\* the text print assembles, lines 120-137: timestamp, the context segments
\* and the label (left out when empty) in brackets, then the messages
Rendering(lg, label, messages) ==
    [timestamp |-> lg.options.useTimestamps,
     indent |-> lg.groupLevel,
     prefix |-> lg.context \o (IF label = "" THEN <<>> ELSE <<label>>),
     sep |-> IF Len(messages) > 1 THEN "newline" ELSE "space",
     body |-> [j \in 1..Len(messages) |-> FormatMessage(messages[j])]]

ConsoleWrite(output, colorFn, text) ==
    [kind |-> "console", method |-> output, colorFn |-> colorFn, text |-> text]
Emission(ev, args) == [kind |-> "emit", ev |-> ev, args |-> args]

PrintArgs(label, colorFn, messages, output) ==
    [label |-> label, colorFn |-> colorFn, messages |-> messages, output |-> output]
MethodArgs(lg, messages) == [context |-> lg.context, messages |-> messages]
ErrorArgs(lg, level, messages) ==
    [context |-> lg.context, level |-> level, messages |-> messages]

\* print with messages, lines 120-152: the console write, then the emission
PrintEmitsFirst(lg, label, colorFn, messages, output) ==
    <<Emission("print", PrintArgs(label, colorFn, messages, output))>>
    \o (IF output \in Outputs
        THEN <<ConsoleWrite(output, colorFn, Rendering(lg, label, messages))>> ELSE <<>>)
PrintMessages(lg, label, colorFn, messages, output) ==
    (IF output \in Outputs
     THEN <<ConsoleWrite(output, colorFn, Rendering(lg, label, messages))>> ELSE <<>>)
    \o <<Emission("print", PrintArgs(label, colorFn, messages, output))>>

\* messages.length === 0, line 115
NeverEmpty(messages) == FALSE
IsEmpty(messages) == Len(messages) = 0

\* print (lines 109-153) and warn (lines 190-193) call each other: the
\* effects of a call, in order, when no subscriber throws
RECURSIVE PrintEffects(_, _, _, _, _)
RECURSIVE WarnEffects(_, _)

PrintEffects(lg, label, colorFn, messages, output) ==
    IF IsEmpty(messages)
    THEN WarnEffects(lg, <<Arr("Logger.print called without messages")>>)
    ELSE PrintMessages(lg, label, colorFn, messages, output)

WarnEffects(lg, messages) ==
    PrintEffects(lg, "WARNING", "yellow", messages, "error")
    \o <<Emission("warn", MethodArgs(lg, messages))>>

\* log, info, success, lines 160-183
LogEffects(lg, messages) ==
    PrintEffects(lg, "", "blue", messages, "log")
    \o <<Emission("log", MethodArgs(lg, messages))>>
InfoEffects(lg, messages) ==
    PrintEffects(lg, "INFO", "cyan", messages, "log")
    \o <<Emission("info", MethodArgs(lg, messages))>>
SuccessEffects(lg, messages) ==
    PrintEffects(lg, "SUCCESS", "green", messages, "log")
    \o <<Emission("success", MethodArgs(lg, messages))>>

\* error, lines 205-222
ErrorColor(level) == IF level = 0 THEN "red" ELSE IF level = 1 THEN "redBright" ELSE "bgRed"
ErrorLabel(level) ==
    IF level = 0 THEN "ERROR" ELSE IF level = 1 THEN "CRITICAL ERROR" ELSE "FATAL ERROR"
ErrorEffects(lg, level, messages) ==
    PrintEffects(lg, ErrorLabel(level), ErrorColor(level), messages, "error")
    \o <<Emission("error", ErrorArgs(lg, level, messages))>>

\* The subscribers of the k-th emission of a call throw (k = 0: every event
\* has subscribers and none throws; k = NoSubscribers: the bus has none).
\* The logger's bus does not catch (catchErrors: false, line 50), so the
\* throw leaves emit, print and the method: what follows is not performed.
NoSubscribers == 0 - 1
EmitsUpTo(eff, n) == Cardinality({j \in 1..n : eff[j].kind = "emit"})
Emits(eff) == EmitsUpTo(eff, Len(eff))
ThrowAt(eff, k) ==
    IF k > 0 /\ k <= Emits(eff) /\ ~Catches("emit")
    THEN CHOOSE n \in 1..Len(eff) : eff[n].kind = "emit" /\ EmitsUpTo(eff, n) = k
    ELSE 0
Performed(eff, k) == IF ThrowAt(eff, k) = 0 THEN eff ELSE SubSeq(eff, 1, ThrowAt(eff, k))

\* What the bus sends to its sink, the logger, during the call (emit, lines
\* 183-204 of events/index.ts): a warning for an emission without listeners
\* if warnOnNoListeners, an error report for a throw if the bus catches.
\* (The calls these would make on the logger are not followed.)
Emitted(eff) == SelectSeq(eff, LAMBDA x : x.kind = "emit")
BusReports(eff, k) ==
    IF k = NoSubscribers
    THEN IF options.warnOnNoListeners
         THEN [j \in 1..Emits(eff) |->
                  Warning("Event emitted with no listeners:", Emitted(eff)[j].ev)]
         ELSE <<>>
    ELSE IF k > 0 /\ k <= Emits(eff) /\ Catches("emit")
    THEN <<ErrorReport(Emitted(eff)[k].ev)>>
    ELSE <<>>

\* a call on logger i: what it does to the console and the bus, and its record
Called(i, k, eff, rec) ==
    /\ i \in 1..Len(loggers)
    /\ k <= Emits(eff)
    /\ io' = Performed(eff, k)
    /\ out' = BusReports(eff, k)
    /\ call' = [rec EXCEPT !.logger = i, !.subs = k, !.threw = ThrowAt(eff, k) > 0]
    /\ UNCHANGED <<listeners, options, wrappers, fired, stack, pending, ret>>

Log(i, messages, k) ==
    /\ Called(i, k, LogEffects(loggers[i], messages),
              [NoCall EXCEPT !.op = "log", !.messages = messages])
    /\ UNCHANGED <<loggers, clock>>

Info(i, messages, k) ==
    /\ Called(i, k, InfoEffects(loggers[i], messages),
              [NoCall EXCEPT !.op = "info", !.messages = messages])
    /\ UNCHANGED <<loggers, clock>>

Success(i, messages, k) ==
    /\ Called(i, k, SuccessEffects(loggers[i], messages),
              [NoCall EXCEPT !.op = "success", !.messages = messages])
    /\ UNCHANGED <<loggers, clock>>

Warn(i, messages, k) ==
    /\ Called(i, k, WarnEffects(loggers[i], messages),
              [NoCall EXCEPT !.op = "warn", !.messages = messages])
    /\ UNCHANGED <<loggers, clock>>

Error(i, level, messages, k) ==
    /\ Called(i, k, ErrorEffects(loggers[i], level, messages),
              [NoCall EXCEPT !.op = "error", !.level = level, !.messages = messages])
    /\ UNCHANGED <<loggers, clock>>

PrintCall(i, label, colorFn, messages, output, k) ==
    /\ Called(i, k, PrintEffects(loggers[i], label, colorFn, messages, output),
              [NoCall EXCEPT !.op = "print", !.label = label, !.messages = messages])
    /\ UNCHANGED <<loggers, clock>>

\* clear, lines 227-229
Clear(i) ==
    /\ Called(i, 0, <<ClearEntry>>, [NoCall EXCEPT !.op = "clear"])
    /\ UNCHANGED <<loggers, clock>>

\* the messages the timer methods build
Started(l) == Str([label |-> l, text |-> "started"])
Elapsed(l, d) == Str([label |-> l, ms |-> d])
NotFound(l) == Str([label |-> l, text |-> "does not exist."])

\* if (!start), lines 238 and 251: undefined and 0 are falsy
Falsy(t) == ~t.has \/ t.start = 0

TimerRec(op, i, l, now) ==
    [NoCall EXCEPT !.op = op, !.label = l, !.now = now,
                   !.had = loggers[i].timers[l].has,
                   !.start = loggers[i].timers[l].start]

\* time(label), lines 231-234
Time(i, l, now, k) ==
    /\ now \in clock..MaxClock
    /\ Called(i, k, PrintEffects(loggers[i], "TIMER START", "magenta", <<Started(l)>>, "log"),
              TimerRec("time", i, l, now))
    /\ loggers' = [loggers EXCEPT ![i].timers[l] = Timer(now)]
    /\ clock' = now

\* timeLog(label), lines 236-247
TimeLog(i, l, now, k) ==
    /\ i \in 1..Len(loggers)
    /\ IF Falsy(loggers[i].timers[l])
       THEN /\ now = clock
            /\ Called(i, k, WarnEffects(loggers[i], <<NotFound(l)>>),
                      TimerRec("timeLog", i, l, now))
       ELSE /\ now \in clock..MaxClock
            /\ Called(i, k, PrintEffects(loggers[i], "TIMER", "magentaBright",
                                         <<Elapsed(l, now - loggers[i].timers[l].start)>>, "log"),
                      TimerRec("timeLog", i, l, now))
    /\ clock' = now
    /\ UNCHANGED loggers

\* timeEnd(label), lines 249-262
TimeEnd(i, l, now, k) ==
    /\ i \in 1..Len(loggers)
    /\ IF Falsy(loggers[i].timers[l])
       THEN /\ now = clock
            /\ Called(i, k, WarnEffects(loggers[i], <<NotFound(l)>>),
                      TimerRec("timeEnd", i, l, now))
            /\ UNCHANGED loggers
       ELSE /\ now \in clock..MaxClock
            /\ Called(i, k, PrintEffects(loggers[i], "TIMER END", "magenta",
                                         <<Elapsed(l, now - loggers[i].timers[l].start)>>, "log"),
                      TimerRec("timeEnd", i, l, now))
            /\ loggers' = [loggers EXCEPT ![i].timers[l] = NoTimer]
    /\ clock' = now

\* table(data), lines 264-276; `if (!data)` tests truthiness
Data(kind, v) == [kind |-> kind, v |-> v]
DataValues == {Data("undefined", ""), Data("null", ""), Data("number", "0"),
               Data("number", "1"), Data("boolean", "false"), Data("string", ""),
               Data("string", "a"), Data("object", "{}")}
JsFalsy(d) ==
    \/ d.kind \in {"undefined", "null"}
    \/ d.kind = "number" /\ d.v \in {"0", "NaN"}
    \/ d.kind = "boolean" /\ d.v = "false"
    \/ d.kind = "string" /\ d.v = ""
TypeOf(d) == IF d.kind = "null" THEN "object" ELSE d.kind
Formatted(d) ==
    Str([by |-> IF TypeOf(d) = "object" THEN "JSON.stringify" ELSE "String", of |-> d.v])
NoDataMessage == Str("No data provided to table()")

Table(i, d, k) ==
    /\ i \in 1..Len(loggers)
    /\ IF JsFalsy(d)
       THEN Called(i, k, WarnEffects(loggers[i], <<NoDataMessage>>),
                   [NoCall EXCEPT !.op = "table", !.data = d])
       ELSE Called(i, k, PrintEffects(loggers[i], "TABLE", "white", <<Formatted(d)>>, "log"),
                   [NoCall EXCEPT !.op = "table", !.data = d])
    /\ UNCHANGED <<loggers, clock>>

\* child(name), lines 285-294: the new logger is the last of loggers
ChildOptions(lg) == [clearOnInit |-> "false", useTimestamps |-> AsGiven(lg.options.useTimestamps)]

Child(i, name) ==
    /\ i \in 1..Len(loggers)
    /\ Len(loggers) < MaxLoggers
    /\ loggers' = Append(loggers, Construct(name, ChildOptions(loggers[i]), Parent(loggers[i].context)))
    /\ io' = ConstructEffects(ChildOptions(loggers[i]), Parent(loggers[i].context))
    /\ call' = [NoCall EXCEPT !.op = "child", !.logger = i, !.label = name]
    /\ UNCHANGED clock
    /\ UNCHANGED bvars

\* new Logger(name, options, parentContext) called by the user of the
\* module, lines 60-74: the new logger is the last of loggers
ParentContexts == {<<>>, <<"App">>}
ParentArgs == {NoParent} \cup {Parent(c) : c \in ParentContexts}

NewLogger(name, o, parent) ==
    /\ Len(loggers) < MaxLoggers
    /\ loggers' = Append(loggers, Construct(name, o, parent))
    /\ io' = ConstructEffects(o, parent)
    /\ call' = [NoCall EXCEPT !.op = "new", !.logger = Len(loggers) + 1, !.label = name]
    /\ UNCHANGED clock
    /\ UNCHANGED bvars

\* new Logger("App", options): the root logger and the bus it owns, built
\* with warnOnNoListeners: false and catchErrors: false (lines 47-51)
EventSystemDefaults == [warnOnNoListeners |-> TRUE, catchErrors |-> TRUE,
                        maxListeners |-> Infinity]
LoggerBusOptions == [warnOnNoListeners |-> FALSE, catchErrors |-> FALSE,
                     maxListeners |-> Infinity]

InitLogger ==
    /\ listeners = [e \in Events |-> Absent]
    /\ options = LoggerBusOptions
    /\ wrappers = <<>>
    /\ fired = <<>>
    /\ stack = <<>>
    /\ pending = <<>>
    /\ out = <<>>
    /\ ret = NoRet
    /\ \E o \in [clearOnInit : OptionValues, useTimestamps : OptionValues] :
          /\ loggers = <<Construct("App", o, NoParent)>>
          /\ io = ConstructEffects(o, NoParent)
    /\ clock = 0
    /\ call = [NoCall EXCEPT !.op = "new", !.logger = 1, !.label = "App"]

\* Logging calls on the root logger and a chain of descendants: each child
\* is made by the newest logger.
Newest(i) == i = Len(loggers)

NextLogger ==
    \/ \E i \in 1..MaxLoggers, m \in MsgLists, k \in 0..MaxEmits : Log(i, m, k)
    \/ \E i \in 1..MaxLoggers, m \in MsgLists, k \in 0..MaxEmits : Info(i, m, k)
    \/ \E i \in 1..MaxLoggers, m \in MsgLists, k \in 0..MaxEmits : Success(i, m, k)
    \/ \E i \in 1..MaxLoggers, m \in MsgLists, k \in 0..MaxEmits : Warn(i, m, k)
    \/ \E i \in 1..MaxLoggers, v \in Levels, m \in MsgLists, k \in 0..MaxEmits : Error(i, v, m, k)
    \/ \E i \in 1..MaxLoggers, l \in PrintLabels, c \in PrintColors, m \in MsgLists,
          o \in Outputs, k \in 0..MaxEmits : PrintCall(i, l, c, m, o, k)
    \/ \E i \in 1..MaxLoggers : Clear(i)
    \/ \E i \in 1..MaxLoggers : Newest(i) /\ Child(i, "db")

SpecLogger == InitLogger /\ [][NextLogger]_vars

\* Timers on a root logger built as new Logger("App") and on a chain of
\* descendants, the subscribers of their buses returning normally.
InitTimers ==
    /\ InitLogger
    /\ loggers = <<Construct("App", [clearOnInit |-> "unset", useTimestamps |-> "unset"], NoParent)>>

NextTimers ==
    \/ \E i \in 1..MaxLoggers, l \in Labels, t \in 0..MaxClock : Time(i, l, t, 0)
    \/ \E i \in 1..MaxLoggers, l \in Labels, t \in 0..MaxClock : TimeLog(i, l, t, 0)
    \/ \E i \in 1..MaxLoggers, l \in Labels, t \in 0..MaxClock : TimeEnd(i, l, t, 0)
    \/ \E i \in 1..MaxLoggers, n \in Names : Newest(i) /\ Child(i, n)

SpecTimers == InitTimers /\ [][NextTimers]_vars

\* Every method of one logger built as new Logger("App"), on a bus without
\* subscribers or with subscribers that return or throw.
Subscribers == {NoSubscribers} \cup 0..MaxEmits

NextCalls ==
    \/ \E m \in MsgLists, k \in Subscribers : Log(1, m, k)
    \/ \E m \in MsgLists, k \in Subscribers : Info(1, m, k)
    \/ \E m \in MsgLists, k \in Subscribers : Success(1, m, k)
    \/ \E m \in MsgLists, k \in Subscribers : Warn(1, m, k)
    \/ \E v \in Levels, m \in MsgLists, k \in Subscribers : Error(1, v, m, k)
    \/ \E l \in PrintLabels, c \in PrintColors, m \in MsgLists, o \in Outputs,
          k \in Subscribers : PrintCall(1, l, c, m, o, k)
    \/ \E l \in Labels, t \in 0..MaxClock, k \in Subscribers : Time(1, l, t, k)
    \/ \E l \in Labels, t \in 0..MaxClock, k \in Subscribers : TimeLog(1, l, t, k)
    \/ \E l \in Labels, t \in 0..MaxClock, k \in Subscribers : TimeEnd(1, l, t, k)
    \/ \E d \in DataValues, k \in Subscribers : Table(1, d, k)

SpecCalls == InitTimers /\ [][NextCalls]_vars

\* Loggers constructed directly, with and without a parentContext, and by
\* child().
NextNew ==
    \/ \E o \in [clearOnInit : OptionValues, useTimestamps : OptionValues],
          q \in ParentArgs : NewLogger("App", o, q)
    \/ \E i \in 1..MaxLoggers, n \in Names : Child(i, n)
    \/ \E i \in 1..MaxLoggers : Clear(i)

SpecNew == InitLogger /\ [][NextNew]_vars

\* ---------------------------------------------------------------- claims
NoDup(s) == \A i, j \in 1..Len(s) : s[i] = s[j] => i = j
Occ(s, x) == Cardinality({i \in 1..Len(s) : s[i] = x})
Fails(o) == Cardinality({j \in 1..Len(o) : o[j] = "fail"})
Before(s, a, b) == Has(s, a) /\ Has(s, b) /\ IndexOf(s, a) < IndexOf(s, b)
EmitReturned == ret.mode = "emit" /\ ret.result = "true"

C1_EmitInOrder == EmitReturned => ret.invoked = ret.snapshot /\ NoDup(ret.invoked)

\* s keeps the relative order t has among the handlers other than x
KeepsOrder(s, t, x) ==
    \A i, j \in 1..Len(t) :
        (i < j /\ t[i] # x /\ t[j] # x) => Before(s, t[i], t[j])

C1_PrependFirst(e, f) ==
    Prepend(e, f) =>
        LET old == listeners[e].set
            new == listeners'[e].set
        IN  /\ new[1] = Plain(f)
            /\ \A i \in 1..Len(old) : old[i] # Plain(f) => Before(new, Plain(f), old[i])
            /\ KeepsOrder(new, old, Plain(f))
            /\ Len(new) = Len(old) + (IF Has(old, Plain(f)) THEN 0 ELSE 1)

C1_OnLast(e, f) ==
    (~Has(listeners[e].set, Plain(f)) /\ On(e, f)) =>
        LET old == listeners[e].set
            new == listeners'[e].set
        IN  /\ new[Len(new)] = Plain(f)
            /\ \A i \in 1..Len(old) : Before(new, old[i], Plain(f))
            /\ KeepsOrder(new, old, Plain(f))
            /\ Len(new) = Len(old) + 1

\* C1: an emit whose handlers leave the registry alone invokes every handler
\* registered for the event exactly once, in the order of the registry; a
\* prepend puts its handler before every handler registered at that time, an
\* on of a new handler puts it after them, and neither reorders the others.
C1_Order ==
    /\ []C1_EmitInOrder
    /\ [][\A e \in Events : listeners'[e] # listeners[e] =>
             \A f \in Fns : C1_PrependFirst(e, f) /\ C1_OnLast(e, f)]_vars

C1_Witness == EmitReturned /\ Len(ret.invoked) = 3 /\ ret.invoked[1] = Plain("B")

\* C2: every handler registered for the event when emit was called is invoked
\* by that emit, also when a handler invoked earlier removed it with off or
\* its unsubscribe function.
C2_SnapshotOnRemoval ==
    EmitReturned => \A i \in 1..Len(ret.snapshot) : Has(ret.invoked, ret.snapshot[i])

\* C3: an emit invokes no handler that was not registered for the event when
\* emit was called: one registered during the emission waits for the next.
C3_SnapshotOnAddition ==
    EmitReturned => \A i \in 1..Len(ret.invoked) : Has(ret.snapshot, ret.invoked[i])

\* C4: the handler of a once registration is invoked at most once, whatever
\* the nesting of emit and emitAsync, and once it has been invoked the
\* registration is no longer in the registry.
C4_OnceAtMostOnce ==
    \A k \in 1..Len(wrappers) :
        /\ fired[k] <= 1
        /\ fired[k] >= 1 => ~Has(listeners[wrappers[k].ev].set, Wrapper(k))

C5_Counts ==
    (options.catchErrors /\ ret.mode = "emit") =>
        /\ ret.result # "threw"
        /\ ret.result = "true" =>
              /\ ret.invoked = ret.snapshot
              /\ Len(ret.outcomes) = Len(ret.invoked)
              /\ ret.reports = Fails(ret.outcomes)

C5_Reported ==
    (HandlerThrow /\ Top.mode = "emit" /\ options.catchErrors) =>
        /\ out' = <<ErrorReport(Top.ev)>>
        /\ Len(stack') = Len(stack)
        /\ ret' = NoRet

C5_OnlyThrowsReport ==
    (\E i \in 1..Len(out') : out'[i].kind = "error") =>
        (HandlerThrow /\ Top.mode = "emit" /\ options.catchErrors)

\* C5: with catchErrors, an emit over at least one handler invokes every
\* registered handler whether or not earlier ones threw, sends one level-0
\* error report per throwing handler and no other, never fails towards its
\* caller, and returns true.
C5_Isolated ==
    /\ []C5_Counts
    /\ [][C5_Reported /\ C5_OnlyThrowsReport]_vars

C5_Witness ==
    /\ EmitReturned
    /\ options.catchErrors
    /\ Len(ret.invoked) >= 2
    /\ ret.outcomes[1] = "fail"
    /\ ret.reports = 1

C6_Aborted ==
    ret.result = "threw" =>
        /\ ret.mode = "emit"
        /\ ~options.catchErrors
        /\ ret.reports = 0
        /\ Len(ret.outcomes) = Len(ret.invoked)
        /\ Fails(ret.outcomes) = 1
        /\ ret.outcomes[Len(ret.outcomes)] = "fail"
        /\ ret.invoked = SubSeq(ret.snapshot, 1, Len(ret.invoked))

C6_Thrown ==
    (HandlerThrow /\ Top.mode = "emit" /\ ~options.catchErrors) =>
        /\ ret'.result = "threw"
        /\ ret'.invoked = Top.invoked
        /\ stack' = Pop
        /\ out' = <<>>
        /\ listeners' = listeners

\* C6: without catchErrors, a handler that throws during emit makes emit
\* fail towards its caller at once: the handlers ordered after it are not
\* invoked, the sink receives nothing and the registry is not changed.
C6_Propagates ==
    /\ []C6_Aborted
    /\ [][C6_Thrown]_vars

C6_Witness ==
    /\ ret.result = "threw"
    /\ Len(ret.invoked) < Len(ret.snapshot)
    /\ listenerCount(ret.ev) = Len(ret.snapshot)

\* C7: an emitAsync over at least one handler settles only when every
\* handler's promise has settled, and is fulfilled with true when all are
\* fulfilled; over no handler it is fulfilled with false and invokes nothing.
C7_WaitsForAll ==
    ret.mode = "async" =>
        /\ ret.result \in {"true", "rejected"} =>
              /\ Len(ret.outcomes) = Len(ret.snapshot)
              /\ \A j \in 1..Len(ret.outcomes) : ret.outcomes[j] # "pending"
        /\ ret.result = "true" => AllFulfilled(ret.outcomes)
        /\ ret.result = "false" => ret.invoked = <<>> /\ ret.snapshot = <<>>

C8_Rejected ==
    ret.mode = "async" =>
        /\ ret.reports = 0
        /\ Fails(ret.outcomes) > 0 => ret.result = "rejected"

C8_Silent ==
    \/ HandlerThrow /\ Top.mode = "async"
    \/ \E i \in 1..MaxAsync, j \in 1..MaxInvoke : HandlerReject(i, j)
    \/ \E i \in 1..MaxAsync : AsyncSettle(i)

C9_NoDuplicate ==
    /\ \A e \in Events, h \in Refs : Occ(listeners[e].set, h) <= 1
    /\ EmitReturned => \A i \in 1..Len(ret.snapshot) : Occ(ret.invoked, ret.snapshot[i]) = 1

\* on of a handler already registered: the cap warning of an on that left a
\* single handler in the set
C9_Witness ==
    \E e \in Events :
        /\ out = <<Warning("Max listeners exceeded for", e)>>
        /\ listenerCount(e) = 1
        /\ listeners[e].set[1].wid = 0

\* C10: the Map holds no empty Set: an event is in eventNames() exactly when
\* listenerCount is at least 1, exactly when hasListeners holds.
C10_NoEmptySet ==
    \A e \in Events :
        /\ e \in eventNames <=> listenerCount(e) >= 1
        /\ listenerCount(e) >= 1 <=> hasListeners(e)

\* the only handler of an event, a once wrapper, has removed itself
C10_Witness ==
    /\ EmitReturned
    /\ Len(ret.snapshot) = 1
    /\ ret.snapshot[1].wid > 0
    /\ ret.ev \notin eventNames

\* C11: emit(e) returns false exactly when e has no registered handler at the
\* call, and true otherwise; a false return sends one warning to the sink
\* when warnOnNoListeners is set and none when it is not, and invokes no
\* handler.
NoListenersWarning(e) == Warning("Event emitted with no listeners:", e)

C11_FalseCall(e) ==
    Emit(e) =>
        /\ ret'.result = "false" <=> listenerCount(e) = 0
        /\ listenerCount(e) = 0 =>
              /\ ret'.mode = "emit"
              /\ out' = IF options.warnOnNoListeners THEN <<NoListenersWarning(e)>> ELSE <<>>
              /\ stack' = stack
        /\ listenerCount(e) > 0 =>
              /\ out' = <<>>
              /\ Len(stack') = Len(stack) + 1

C11_Returned ==
    ret.mode = "emit" =>
        /\ ret.result \in {"true", "false"}
        /\ ret.result = "false" <=> Len(ret.snapshot) = 0
        /\ ret.result = "false" => ret.invoked = <<>>

C11_EmitResult ==
    /\ []C11_Returned
    /\ [][\A e \in Events : C11_FalseCall(e)]_vars

\* emit returned false for an event without handlers and warned, while the
\* other event has handlers
C11_Witness ==
    /\ ret.mode = "emit"
    /\ ret.result = "false"
    /\ out = <<NoListenersWarning(ret.ev)>>
    /\ \E k \in Events \ {ret.ev} : listenerCount(k) = 2

\* C12: off(e, h) and the unsubscribe function of on / prepend remove the
\* registration of h for e and nothing else: the other events and the other
\* handlers of e keep their handlers and order, and when h is not registered
\* for e the registry is unchanged and nothing is sent to the sink.
AllBut(s, x) == SelectSeq(s, LAMBDA r : r # x)

C12_Removes(e, f) ==
    (Off(e, f) \/ Unsubscribe(e, f)) =>
        /\ \A k \in Events \ {e} : listeners'[k] = listeners[k]
        /\ listeners'[e].set = AllBut(listeners[e].set, Plain(f))
        /\ ~Has(listeners[e].set, Plain(f)) => listeners' = listeners
        /\ out' = <<>>
        /\ options' = options

C12_OffExact == [][\A e \in Events, f \in Fns : C12_Removes(e, f)]_vars

\* the running handler B has removed A, registered before it, from the Set
\* its emission iterates, and the other event still has both handlers
C12_Witness ==
    /\ Len(stack) = 1
    /\ Top.attached
    /\ Top.cur = Plain("B")
    /\ Top.acts = 1
    /\ Top.snapshot = <<Plain("A"), Plain("B")>>
    /\ listeners[Top.ev].set = <<Plain("B")>>
    /\ \E k \in Events \ {Top.ev} : listenerCount(k) = 2

\* C13: removeAllListeners(e) removes all handlers of e, whatever key e is,
\* and leaves the handlers of every other event unchanged;
\* removeAllListeners() empties the registry.
C13_OneEvent(e) ==
    RemoveAllListeners(e) =>
        /\ listeners'[e] = Absent
        /\ \A k \in Events \ {e} : listeners'[k] = listeners[k]

C13_RemoveAll ==
    [][/\ \A e \in Events : C13_OneEvent(e)
       /\ RemoveAllListenersNoArg => \A k \in Events : listeners'[k] = Absent]_vars

\* C14: on(e, h) called while listenerCount(e) has reached the current
\* maxListeners sends exactly one warning to the sink and registers h all the
\* same; below the cap it sends none; setMaxListeners removes no handler.
CapWarning(e) == Warning("Max listeners exceeded for", e)
CapReached(e) == options.maxListeners # Infinity /\ listenerCount(e) >= options.maxListeners

C14_OnAtCap(e, f) ==
    On(e, f) =>
        /\ out' = IF CapReached(e) THEN <<CapWarning(e)>> ELSE <<>>
        /\ Has(listeners'[e].set, Plain(f))
        /\ \A i \in 1..listenerCount(e) : Has(listeners'[e].set, listeners[e].set[i])

C14_SoftCap ==
    [][/\ \A e \in Events, f \in Fns : C14_OnAtCap(e, f)
       /\ \A n \in MaxListenersValues : SetMaxListeners(n) => listeners' = listeners]_vars

\* on of a second, new handler with maxListeners = 1 warned and registered it
C14_Witness ==
    \E e \in Events :
        /\ out = <<CapWarning(e)>>
        /\ options.maxListeners = 1
        /\ listenerCount(e) = 2
        /\ listeners[e].set[2].wid = 0

\* C15: prepend(e, h) called while listenerCount(e) has reached the current
\* maxListeners sends a warning to the sink and registers h at the front.
C15_PrependAtCap(e, f) ==
    (Prepend(e, f) /\ CapReached(e)) =>
        /\ out' = <<CapWarning(e)>>
        /\ listeners'[e].set[1] = Plain(f)

C15_PrependSoftCap == [][\A e \in Events, f \in Fns : C15_PrependAtCap(e, f)]_vars

\* C16: a call of log, info, success, warn or error with at least one message
\* performs, once each and in this order, one console write, one emission of
\* print carrying (label, colorFn, messages, outputKind) of that write, and
\* one emission of the event named after the method carrying the logger's
\* context (for error: then the level) and the same messages. A subscriber
\* that throws ends the call at its emission: nothing after it is performed.
Methods == {"log", "info", "success", "warn", "error"}
LabelSegment(label) == IF label = "" THEN <<>> ELSE <<label>>

C16_InOrder ==
    (call.op \in Methods /\ Len(call.messages) >= 1) =>
        LET lg == loggers[call.logger]
        IN  /\ Len(io) \in {2, 3}
            /\ ~call.threw => Len(io) = 3
            /\ Len(io) = 2 => call.threw
            /\ io[1].kind = "console"
            /\ io[1].text.body = [j \in 1..Len(call.messages) |-> FormatMessage(call.messages[j])]
            /\ io[2].kind = "emit"
            /\ io[2].ev = "print"
            /\ io[2].args.messages = call.messages
            /\ io[2].args.colorFn = io[1].colorFn
            /\ io[2].args.output = io[1].method
            /\ io[1].text.prefix = lg.context \o LabelSegment(io[2].args.label)
            /\ Len(io) = 3 =>
                  /\ io[3].kind = "emit"
                  /\ io[3].ev = call.op
                  /\ io[3].args.context = lg.context
                  /\ io[3].args.messages = call.messages
                  /\ call.op = "error" => io[3].args.level = call.level

\* error(2, 1, 2) on a child logger has returned
C16_Witness ==
    /\ call.op = "error"
    /\ call.level = 2
    /\ call.logger = 2
    /\ Len(call.messages) = 2
    /\ ~call.threw
    /\ Len(io) = 3
    /\ io[3].ev = "error"

\* C17: print called with an empty message list writes nothing under the
\* given label: its only console write is the one warning "Logger.print
\* called without messages", and no print event carries the empty list.
ConsoleWrites == {j \in 1..Len(io) : io[j].kind = "console"}

C17_EmptyPrint ==
    (call.op = "print" /\ Len(call.messages) = 0) =>
        LET lg == loggers[call.logger]
        IN  /\ Cardinality(ConsoleWrites) = 1
            /\ io[1].kind = "console"
            /\ io[1].text.prefix = lg.context \o <<"WARNING">>
            /\ Len(io[1].text.body) = 1
            /\ io[1].text.body[1].of = "Logger.print called without messages"
            /\ \A j \in ConsoleWrites : ~Has(io[j].text.prefix, call.label)
            /\ \A j \in 1..Len(io) :
                  (io[j].kind = "emit" /\ io[j].ev = "print") => Len(io[j].args.messages) > 0
            /\ \A j \in 1..Len(io) :
                  io[j].kind = "emit" => io[j].ev \in {"print", "warn"}
            /\ ~call.threw => Len(io) = 3

\* print("NOTE", colorFn, [], output) has returned
C17_Witness ==
    /\ call.op = "print"
    /\ call.label = "NOTE"
    /\ Len(call.messages) = 0
    /\ ~call.threw
    /\ Len(io) = 3

\* C18: timeEnd(label) after time(label), whatever the start instant, prints
\* one "TIMER END" report with a non-negative duration and removes the entry;
\* timeLog and timeEnd on a label without entry take the not-found warning
\* and print no duration.
LastSegment(e) == e.text.prefix[Len(e.text.prefix)]
Reports(label) ==
    /\ Cardinality(ConsoleWrites) = 1
    /\ io[1].kind = "console"
    /\ LastSegment(io[1]) = label
    /\ io[1].text.body[1].of.label = call.label
    /\ io[1].text.body[1].of.ms >= 0
WarnsNotFound ==
    /\ Cardinality(ConsoleWrites) = 1
    /\ io[1].kind = "console"
    /\ LastSegment(io[1]) = "WARNING"
    /\ io[1].text.body[1].of = [label |-> call.label, text |-> "does not exist."]

C18_TimeEndConsumes ==
    /\ (call.op = "timeEnd" /\ call.had) =>
          /\ Reports("TIMER END")
          /\ ~loggers[call.logger].timers[call.label].has
    /\ (call.op \in {"timeLog", "timeEnd"} /\ ~call.had) => WarnsNotFound

\* C19: timeLog(label) on a label that has an entry, whatever its start
\* instant, prints a "TIMER" report and leaves the entry and its start
\* instant unchanged; time(label) sets the start instant, also over an
\* existing entry; timeLog on a label without entry warns and adds none.
C19_TimeLogReads ==
    /\ (call.op = "timeLog" /\ call.had) =>
          /\ Reports("TIMER")
          /\ loggers[call.logger].timers[call.label] = Timer(call.start)
    /\ call.op = "time" => loggers[call.logger].timers[call.label] = Timer(call.now)
    /\ (call.op = "timeLog" /\ ~call.had) =>
          /\ WarnsNotFound
          /\ loggers[call.logger].timers[call.label] = NoTimer

\* C20: a child's context is its parent's context with the child's name
\* appended, along any chain of child() calls, and creating a child leaves
\* every existing logger (context, options, timers) unchanged.
C20_Chain ==
    \A j \in 1..Len(loggers) :
        IF j = 1 THEN Len(loggers[j].context) = 1
        ELSE \E q \in 1..(j - 1), n \in Names :
                loggers[j].context = loggers[q].context \o <<n>>

C20_Appends(i, n) ==
    Child(i, n) =>
        /\ Len(loggers') = Len(loggers) + 1
        /\ \A j \in 1..Len(loggers) : loggers'[j] = loggers[j]
        /\ loggers'[Len(loggers')].context = loggers[i].context \o <<n>>

C20_ChildContext ==
    /\ []C20_Chain
    /\ [][\A i \in 1..MaxLoggers, n \in Names : C20_Appends(i, n)]_vars

\* ["App"] -> ["App","db"] -> ["App","db","pool"], each parent holding a
\* running timer when its child was made
C20_Witness ==
    /\ call.op = "child"
    /\ Len(loggers) = 3
    /\ loggers[1].context = <<"App">>
    /\ loggers[2].context = <<"App", "db">>
    /\ loggers[3].context = <<"App", "db", "pool">>
    /\ loggers[1].timers["job"] = Timer(1)
    /\ loggers[2].timers["job"] = Timer(2)

\* C21: constructing a logger without parentContext clears the console
\* exactly once when clearOnInit is true or left to its default and not at
\* all when it is false; constructing one with a parentContext, directly or
\* by child(), never clears it, whatever clearOnInit is passed or inherited.
C21_Constructed ==
    call.op \in {"new", "child"} =>
        /\ Len(io) <= 1
        /\ call.op = "child" => io = <<>>
        /\ (call.op = "new" /\ ~loggers[call.logger].options.clearOnInit) => io = <<>>
        /\ (call.op = "new" /\ call.logger = 1) =>
              (io = <<ClearEntry>> <=> loggers[1].options.clearOnInit)

C21_NewStep(o, q) ==
    NewLogger("App", o, q) =>
        io' = IF ~q.given /\ o.clearOnInit \in {"true", "unset"}
              THEN <<ClearEntry>> ELSE <<>>

C21_ClearOnInit ==
    /\ []C21_Constructed
    /\ [][/\ \A o \in [clearOnInit : OptionValues, useTimestamps : OptionValues],
                q \in ParentArgs : C21_NewStep(o, q)
          /\ \A i \in 1..MaxLoggers, n \in Names : Child(i, n) => io' = <<>>]_vars

\* a logger constructed with clearOnInit true and a parentContext did not
\* clear the console
C21_Witness ==
    /\ call.op = "new"
    /\ call.logger = 2
    /\ loggers[2].options.clearOnInit
    /\ Len(loggers[2].context) = 2
    /\ io = <<>>

\* C22: table(data) takes the "No data provided" warning, and prints nothing
\* else, exactly when data is absent or null; for every other value, 0, false
\* and the empty string included, it prints one line under the "TABLE" label
\* and no warning.
C22_WarnsNoData ==
    /\ Cardinality(ConsoleWrites) = 1
    /\ io[1].kind = "console"
    /\ LastSegment(io[1]) = "WARNING"
    /\ io[1].text.body[1].of = "No data provided to table()"
C22_PrintsTable ==
    /\ Cardinality(ConsoleWrites) = 1
    /\ io[1].kind = "console"
    /\ LastSegment(io[1]) = "TABLE"
    /\ io[1].text.body[1].of.of = call.data.v

C22_TableData ==
    call.op = "table" =>
        IF call.data.kind \in {"undefined", "null"} THEN C22_WarnsNoData ELSE C22_PrintsTable

\* C24: the logger being the sink of its own bus never loops: every call of
\* print, log, info, success, warn, error, time, timeLog, timeEnd or table
\* ends after at most two renderings (its own and at most one usage
\* warning), and no emission on the bus, with or without subscribers, sends
\* a warning or an error report to the logger.
LoggerOps == {"print", "log", "info", "success", "warn", "error",
              "time", "timeLog", "timeEnd", "table"}

C24_NoLoop ==
    call.op \in LoggerOps =>
        /\ out = <<>>
        /\ Cardinality(ConsoleWrites) <= 2

\* log() without messages on a bus without subscribers: the usage warning,
\* its print and warn emissions, then the log emission
C24_Witness ==
    /\ call.op = "log"
    /\ Len(call.messages) = 0
    /\ call.subs = NoSubscribers
    /\ Len(io) = 4
    /\ io[4].ev = "log"

\* C23: a registration made by once(e, h) is held under its own wrapper:
\* off(e, h) leaves it in place, every once(e, h) adds one more registration
\* (so h is invoked once per registration by the next emit(e)), and it leaves
\* the set of e only by its own unsubscribe function, by removeAllListeners
\* or by firing.
C23_OffKeeps(e, f) ==
    Off(e, f) =>
        /\ \A k \in 1..Len(wrappers) :
              Has(listeners[e].set, Wrapper(k)) => Has(listeners'[e].set, Wrapper(k))
        /\ ~Has(listeners[e].set, Plain(f)) => Len(listeners'[e].set) = listenerCount(e)

C23_OnceAdds(e, f) ==
    OnceReg(e, f) => Len(listeners'[e].set) = listenerCount(e) + 1

C23_Removed(e, k) ==
    (Has(listeners[e].set, Wrapper(k)) /\ ~Has(listeners'[e].set, Wrapper(k))) =>
        \/ UnsubscribeOnce(k)
        \/ RemoveAllListenersNoArg
        \/ \E e2 \in Events : RemoveAllListeners(e2)
        \/ Invoke /\ stack'[Len(stack')].cur = Wrapper(k)

C23_AllInvoked ==
    EmitReturned =>
        \A i \in 1..Len(ret.snapshot) :
            ret.snapshot[i].wid > 0 => Occ(ret.invoked, ret.snapshot[i]) = 1

C23_OnceWrapper ==
    /\ []C23_AllInvoked
    /\ [][/\ \A e \in Events, f \in Fns : C23_OffKeeps(e, f) /\ C23_OnceAdds(e, f)
          /\ \A e \in Events, k \in 1..Len(wrappers) : C23_Removed(e, k)]_vars

\* once(e, A) twice, then emit(e): A was invoked twice, through two wrappers
C23_Witness ==
    /\ EmitReturned
    /\ Len(ret.invoked) = 2
    /\ ret.invoked[1] = [fn |-> "A", wid |-> 1]
    /\ ret.invoked[2] = [fn |-> "A", wid |-> 2]
    /\ listenerCount(ret.ev) = 0

====
